---- MODULE Spec2Model ----
(***************************************************************************)
(* rcoffee: the rclone-driven synchronisation daemon of                    *)
(* src/rcoffee/process.py.                                                *)
(*                                                                         *)
(* One asyncio event loop runs the coordinator (run_async) and, once it    *)
(* reaches asyncio.gather, three tasks: _watch_local, _poll_remote and    *)
(* _sync.  A step of the model is what one coroutine executes between two  *)
(* suspension points (await).  rclone runs as a child process: awaiting   *)
(* asyncio.create_subprocess_exec resumes the caller as soon as the child *)
(* has been created, the child then runs on its own until it exits.       *)
(***************************************************************************)
EXTENDS Naturals, Sequences, FiniteSets

\* ------------------------------------------------------------------ bounds
MaxPath == 1
MaxInFlight == 2
SortPaths == 2
SortSizes == 2
SortLen == 2

VARIABLES
    main,            \* where run_async stands
    pc_w,            \* where _watch_local stands
    pc_p,            \* where _poll_remote stands
    pc_c,            \* where _sync stands
    local_changed,   \* Process._local_changed
    remote_changed,  \* Process._remote_changed
    need_push,       \* local need_push of _sync
    need_pull,       \* local need_pull of _sync
    last_state,      \* local last_state of _poll_remote
    stdout_content,  \* what the running lsjson has written to its stdout
    remote,          \* the remote tree, as the entries lsjson lists
    inflight,        \* copy/sync/dedupe children created and not yet exited
    phase,           \* the transfers issued since batching last began
    prev_poll,       \* the sorted listing of the preceding poll cycle
    poll_same,       \* the last poll cycle found the listing unchanged
    scn,             \* observer of the scenarios: see ScnLocal, ScnRemote
    acts,            \* ACTION phases begun since the observed local event
    edited,          \* the remote tree has been modified since the start
    failed           \* a child has exited with a non-zero returncode since
                     \* batching last began

vars == <<main, pc_w, pc_p, pc_c, local_changed, remote_changed, need_push,
          need_pull, last_state, stdout_content, remote, inflight, phase,
          prev_poll, poll_same, scn, acts, edited, failed>>

\* ------------------------------------------------------------ remote tree
\* One item of rclone lsjson: its "Path" and the other fields (here "Size").
Entry(paths, sizes) == [Path : 1..paths, Size : 1..sizes]

\* The remote trees of a run: any set of the paths.  The daemon only compares
\* listings for equality, so one value of the other fields is enough here;
\* entries that share a path are the subject of SpecSort below.
Trees == SUBSET Entry(MaxPath, 1)

\* The orders in which the remote may list the entries of a tree.
Listings(t) ==
    {s \in [1..Cardinality(t) -> t] : \A e \in t : \E i \in DOMAIN s : s[i] = e}

\* Optional[Any]: None is the empty set, a value v is {v}.
None == {}
Some(v) == {v}

\* The stdout of rclone lsjson: nothing, text that is no JSON, or a JSON list.
NoOutput == [kind |-> "pending", list |-> <<>>]
EmptyOutput == [kind |-> "empty", list |-> <<>>]
GarbageOutput == [kind |-> "garbage", list |-> <<>>]
JsonOutput(s) == [kind |-> "json", list |-> s]

\* ------------------------------------------------------- rclone commands
Transfer(command, source, dest) == [cmd |-> command, src |-> source, dst |-> dest]

SyncUpdate(source, dest) == Transfer("sync", source, dest)

CopyUpdate(source, dest) == Transfer("copy", source, dest)

Dedupe == [cmd |-> "dedupe", src |-> "remote", dst |-> "remote"]

\* _cross_copy: the two copies, in the order they are issued.
CrossCopySwapped == <<CopyUpdate("local", "remote"), CopyUpdate("remote", "local")>>

CrossCopy == <<CopyUpdate("remote", "local"), CopyUpdate("local", "remote")>>

\* The if/elif chain of _sync: the transfers of the resolved direction.
SyncActionPullOnly(push, pull) ==
    IF push /\ pull THEN CrossCopy
    ELSE IF pull \/ push THEN <<SyncUpdate("remote", "local")>>
    ELSE <<>>

SyncAction(push, pull) ==
    IF push /\ pull THEN CrossCopy
    ELSE IF push THEN <<SyncUpdate("local", "remote")>>
    ELSE IF pull THEN <<SyncUpdate("remote", "local")>>
    ELSE <<>>

\* create_subprocess_exec: the child exists when the await returns; nothing
\* waits for it to exit.
RunCmd(t) ==
    /\ inflight < MaxInFlight
    /\ inflight' = inflight + 1

\* ------------------------------------------------------------- the sort
\* sorted(listing, key=lambda item: item["Path"]): a stable sort, entries of
\* equal Path keep the order they came in.
RECURSIVE InsertByPath(_, _)
InsertByPath(e, s) ==
    IF s = <<>> THEN <<e>>
    ELSE IF s[Len(s)].Path <= e.Path THEN Append(s, e)
    ELSE Append(InsertByPath(e, SubSeq(s, 1, Len(s) - 1)), s[Len(s)])

RECURSIVE SortByPath(_)
SortByPath(s) ==
    IF s = <<>> THEN <<>>
    ELSE InsertByPath(s[Len(s)], SortByPath(SubSeq(s, 1, Len(s) - 1)))

\* new_state != last_state
AlwaysChanged(new_state, last) == TRUE

ChangedFromEmptyBaseline(new_state, last) ==
    Some(new_state) # (IF last = None THEN Some(<<>>) ELSE last)

Changed(new_state, last) == Some(new_state) # last

\* ------------------------------------------------- observer of scenarios
\* scn = "L": a local event was signalled while both flags were clear and
\* _sync was not batching, and nothing has been signalled since.  "LR": the
\* poller then signalled before the cooldown of that event had ended.  A
\* trailing "+": a signal came after that batching had ended (acts = 1).
\* Any other signal ends the observation ("off").  acts counts the ACTION
\* phases begun since the observed local event.
Quiescent == ~local_changed /\ ~remote_changed /\ pc_c = "idle"

Settled ==
    /\ ~local_changed /\ ~remote_changed
    /\ pc_c \in {"idle", "dedupe_1", "cross_copy_1", "synced", "dedupe_2"}

Late(s) == IF s \in {"L", "L+"} THEN "L+" ELSE "LR+"

ScnLocal ==
    IF Quiescent \/ (scn = "off" /\ Settled) THEN scn' = "L" /\ acts' = 0
    ELSE IF scn = "off" THEN UNCHANGED <<scn, acts>>
    ELSE IF acts = 0 THEN scn' = "off" /\ acts' = 0
    ELSE scn' = Late(scn) /\ acts' = acts

ScnRemote ==
    IF scn = "off" THEN UNCHANGED <<scn, acts>>
    ELSE IF acts = 0
         THEN scn' = (IF scn = "L" THEN "LR" ELSE "off") /\ acts' = 0
    ELSE IF pc_c = "idle" THEN scn' = "off" /\ acts' = 0
    ELSE scn' = Late(scn) /\ acts' = acts

ScnAction ==
    IF scn = "off" THEN UNCHANGED <<scn, acts>>
    ELSE scn' = scn /\ acts' = (IF acts = 0 THEN 1 ELSE 2)

ScnIdle ==
    IF scn \in {"L+", "LR+"} THEN scn' = "off" /\ acts' = 0
    ELSE UNCHANGED <<scn, acts>>

\* ---------------------------------------------------------------- Init
Init ==
    /\ main = "start"
    /\ pc_w = "watch"
    /\ pc_p = "fetch"
    /\ pc_c = "idle"
    /\ local_changed = FALSE
    /\ remote_changed = FALSE
    /\ need_push = FALSE
    /\ need_pull = FALSE
    /\ last_state = None
    /\ stdout_content = NoOutput
    /\ remote \in Trees
    /\ inflight = 0
    /\ phase = <<>>
    /\ prev_poll = None
    /\ poll_same = FALSE
    /\ scn = "off"
    /\ acts = 0
    /\ edited = FALSE
    /\ failed = FALSE

flags == <<local_changed, remote_changed>>
needs == <<need_push, need_pull>>
poller == <<pc_p, last_state, stdout_content, prev_poll, poll_same>>
observer == <<scn, acts>>

\* --------------------------------------------------------- environment
\* Somebody (an external actor, or a transfer that is running) changes the
\* remote tree.
RemoteEdit ==
    /\ main # "exited"
    /\ \E t \in Trees \ {remote} : remote' = t
    /\ edited' = TRUE
    /\ UNCHANGED <<main, pc_w, pc_c, flags, needs, poller, inflight, phase, observer, failed>>

\* A copy, sync or dedupe child exits, with a returncode nobody reads.
SubprocessExitRequeue ==
    /\ inflight > 0
    /\ inflight' = inflight - 1
    /\ \E returncode \in {0, 1} :
           /\ failed' = (failed \/ returncode # 0)
           /\ local_changed' = (local_changed \/ returncode # 0)
    /\ UNCHANGED <<main, pc_w, pc_c, remote_changed, needs, poller, remote, phase,
                   observer, edited>>

SubprocessExit ==
    /\ inflight > 0
    /\ inflight' = inflight - 1
    /\ \E returncode \in {0, 1} : failed' = (failed \/ returncode # 0)
    /\ UNCHANGED <<main, pc_w, pc_c, flags, needs, poller, remote, phase, observer, edited>>

\* --------------------------------------------------------- coordinator
\* run_async, line 137 -> _cross_copy line 56
RunCrossCopyFirst ==
    /\ main = "start"
    /\ RunCmd(CrossCopy[1])
    /\ main' = "cross_copy_1"
    /\ UNCHANGED <<pc_w, pc_c, flags, needs, poller, remote, phase, observer, edited, failed>>

\* _cross_copy line 57
RunCrossCopySecond ==
    /\ main = "cross_copy_1"
    /\ RunCmd(CrossCopy[2])
    /\ main' = "cross_copy_2"
    /\ UNCHANGED <<pc_w, pc_c, flags, needs, poller, remote, phase, observer, edited, failed>>

\* run_async line 140: the three tasks are created
RunGather ==
    /\ main = "cross_copy_2"
    /\ main' = "gather"
    /\ UNCHANGED <<pc_w, pc_c, flags, needs, poller, remote, inflight, phase, observer, edited, failed>>

Ended == {"returned", "raised", "cancelled"}

\* asyncio.gather without return_exceptions: it raises with the first task
\* that raises, and returns once all three have returned.  When run_async
\* is over asyncio.run cancels the tasks that are left.
GatherDone ==
    IF "raised" \in {pc_w, pc_p, pc_c} THEN TRUE
    ELSE \A pc \in {pc_w, pc_p, pc_c} : pc = "returned"

Cancel(pc) == IF pc \in Ended THEN pc ELSE "cancelled"

RunExit ==
    /\ main = "gather"
    /\ GatherDone
    /\ main' = "exited"
    /\ pc_w' = Cancel(pc_w)
    /\ pc_p' = Cancel(pc_p)
    /\ pc_c' = Cancel(pc_c)
    /\ stdout_content' = NoOutput
    /\ UNCHANGED <<flags, needs, last_state, prev_poll, poll_same, remote, inflight, phase, observer, edited, failed>>

\* ------------------------------------------------------------- watcher
\* _watch_local line 72-74: awatch yields a batch of changes
WatchLocalBothFlags ==
    /\ main = "gather"
    /\ pc_w = "watch"
    /\ local_changed' = TRUE
    /\ remote_changed' = TRUE
    /\ ScnLocal
    /\ UNCHANGED <<main, pc_w, pc_p, pc_c, needs, last_state,
                   stdout_content, prev_poll, poll_same, remote, inflight, phase, edited, failed>>

WatchLocal ==
    /\ main = "gather"
    /\ pc_w = "watch"
    /\ local_changed' = TRUE
    /\ ScnLocal
    /\ UNCHANGED <<main, pc_w, pc_p, pc_c, remote_changed, needs, last_state,
                   stdout_content, prev_poll, poll_same, remote, inflight, phase, edited, failed>>

\* awatch raises
WatchRaise ==
    /\ main = "gather"
    /\ pc_w = "watch"
    /\ pc_w' = "raised"
    /\ UNCHANGED <<main, pc_p, pc_c, flags, needs, poller, remote, inflight, phase, observer, edited, failed>>

\* the async iterator is exhausted: _watch_local returns
WatchReturn ==
    /\ main = "gather"
    /\ pc_w = "watch"
    /\ pc_w' = "returned"
    /\ UNCHANGED <<main, pc_p, pc_c, flags, needs, poller, remote, inflight, phase, observer, edited, failed>>

\* -------------------------------------------------------------- poller
\* _fetch_remote_state lines 66-67: lsjson runs and its stdout is read to
\* the end
PollFetch ==
    /\ main = "gather"
    /\ pc_p = "fetch"
    /\ \E out \in {EmptyOutput, GarbageOutput} \cup {JsonOutput(s) : s \in Listings(remote)} :
           stdout_content' = out
    /\ pc_p' = "compare"
    /\ UNCHANGED <<main, pc_w, pc_c, flags, needs, last_state, prev_poll, poll_same,
                   remote, inflight, phase, observer, edited, failed>>

\* _fetch_remote_state line 68 and _poll_remote lines 82-90
PollCompareTolerant ==
    /\ main = "gather"
    /\ pc_p = "compare"
    /\ stdout_content' = NoOutput
    /\ pc_p' = "sleep"
    /\ IF stdout_content.kind # "json"
       THEN UNCHANGED <<remote_changed, last_state, prev_poll, poll_same, observer>>
       ELSE LET new_state == SortByPath(stdout_content.list) IN
            /\ prev_poll' = Some(new_state)
            /\ poll_same' = (Some(new_state) = prev_poll)
            /\ IF Changed(new_state, last_state)
               THEN /\ remote_changed' = TRUE
                    /\ last_state' = Some(new_state)
                    /\ ScnRemote
               ELSE UNCHANGED <<remote_changed, last_state, observer>>
    /\ UNCHANGED <<main, pc_w, pc_c, local_changed, needs, remote, inflight, phase, edited, failed>>

PollCompare ==
    /\ main = "gather"
    /\ pc_p = "compare"
    /\ stdout_content' = NoOutput
    /\ IF stdout_content.kind # "json"
       THEN /\ pc_p' = "raised"
            /\ UNCHANGED <<remote_changed, last_state, prev_poll, poll_same, observer>>
       ELSE LET new_state == SortByPath(stdout_content.list) IN
            /\ pc_p' = "sleep"
            /\ prev_poll' = Some(new_state)
            /\ poll_same' = (Some(new_state) = prev_poll)
            /\ IF Changed(new_state, last_state)
               THEN /\ remote_changed' = TRUE
                    /\ last_state' = Some(new_state)
                    /\ ScnRemote
               ELSE UNCHANGED <<remote_changed, last_state, observer>>
    /\ UNCHANGED <<main, pc_w, pc_c, local_changed, needs, remote, inflight, phase, edited, failed>>

\* _poll_remote line 90: the sleep is over
PollWake ==
    /\ main = "gather"
    /\ pc_p = "sleep"
    /\ pc_p' = "fetch"
    /\ UNCHANGED <<main, pc_w, pc_c, flags, needs, last_state, stdout_content, prev_poll,
                   poll_same, remote, inflight, phase, observer, edited, failed>>

\* ----------------------------------------------------------- coalescer
\* _sync lines 105-107, with need_push/need_pull as they stand before
ClearThenRecord(push, pull) ==
    /\ local_changed' = FALSE
    /\ remote_changed' = FALSE
    /\ need_push' = push
    /\ need_pull' = pull

RecordAndClear(push, pull) ==
    /\ need_push' = (push \/ local_changed)
    /\ need_pull' = (pull \/ remote_changed)
    /\ local_changed' = FALSE
    /\ remote_changed' = FALSE

\* _sync lines 96-109: the idle loop is left and batching begins
SyncIdleUnguarded ==
    /\ main = "gather"
    /\ pc_c = "idle"
    /\ pc_c' = "cooldown"
    /\ phase' = <<>>
    /\ need_push' = FALSE
    /\ need_pull' = FALSE
    /\ failed' = FALSE
    /\ UNCHANGED <<main, pc_w, flags, poller, remote, inflight, observer, edited>>

SyncIdle ==
    /\ main = "gather"
    /\ pc_c = "idle"
    /\ local_changed \/ remote_changed
    /\ RecordAndClear(FALSE, FALSE)
    /\ pc_c' = "cooldown"
    /\ phase' = <<>>
    /\ failed' = FALSE
    /\ UNCHANGED <<main, pc_w, poller, remote, inflight, observer, edited>>

\* _sync lines 104-109: the cooldown is over and a flag is set again
SyncBatchOnce ==
    /\ main = "gather"
    /\ pc_c = "cooldown"
    /\ local_changed \/ remote_changed
    /\ RunCmd(Dedupe)
    /\ phase' = Append(phase, Dedupe)
    /\ pc_c' = "dedupe_1"
    /\ ScnAction
    /\ UNCHANGED <<main, pc_w, flags, needs, poller, remote, edited, failed>>

SyncBatch ==
    /\ main = "gather"
    /\ pc_c = "cooldown"
    /\ local_changed \/ remote_changed
    /\ RecordAndClear(need_push, need_pull)
    /\ pc_c' = "cooldown"
    /\ UNCHANGED <<main, pc_w, poller, remote, inflight, phase, observer, edited, failed>>

\* _sync lines 104, 111-113: the cooldown is over, no flag is set
SyncDedupeBefore ==
    /\ main = "gather"
    /\ pc_c = "cooldown"
    /\ ~(local_changed \/ remote_changed)
    /\ RunCmd(Dedupe)
    /\ phase' = Append(phase, Dedupe)
    /\ pc_c' = "dedupe_1"
    /\ ScnAction
    /\ UNCHANGED <<main, pc_w, flags, needs, poller, remote, edited, failed>>

\* _sync lines 115-125
SyncResolve ==
    /\ main = "gather"
    /\ pc_c = "dedupe_1"
    /\ LET todo == SyncAction(need_push, need_pull) IN
       IF todo = <<>>
       THEN /\ pc_c' = "raised"
            /\ UNCHANGED <<inflight, phase>>
       ELSE /\ RunCmd(todo[1])
            /\ phase' = Append(phase, todo[1])
            /\ pc_c' = (IF Len(todo) > 1 THEN "cross_copy_1" ELSE "synced")
    /\ UNCHANGED <<main, pc_w, flags, needs, poller, remote, observer, edited, failed>>

\* _cross_copy line 57, called from _sync line 117
SyncCrossCopySecond ==
    /\ main = "gather"
    /\ pc_c = "cross_copy_1"
    /\ RunCmd(CrossCopy[2])
    /\ phase' = Append(phase, CrossCopy[2])
    /\ pc_c' = "synced"
    /\ UNCHANGED <<main, pc_w, flags, needs, poller, remote, observer, edited, failed>>

\* _sync line 129
SyncDedupeSkipped ==
    /\ main = "gather"
    /\ pc_c = "synced"
    /\ pc_c' = "dedupe_2"
    /\ UNCHANGED <<main, pc_w, flags, needs, poller, remote, inflight, phase, observer, edited, failed>>

SyncDedupeAfter ==
    /\ main = "gather"
    /\ pc_c = "synced"
    /\ RunCmd(Dedupe)
    /\ phase' = Append(phase, Dedupe)
    /\ pc_c' = "dedupe_2"
    /\ UNCHANGED <<main, pc_w, flags, needs, poller, remote, observer, edited, failed>>

\* _sync lines 129, 94-109: back at the top of the loop
SyncLoop ==
    /\ main = "gather"
    /\ pc_c = "dedupe_2"
    /\ IF local_changed \/ remote_changed
       THEN /\ RecordAndClear(FALSE, FALSE)
            /\ pc_c' = "cooldown"
            /\ phase' = <<>>
            /\ failed' = FALSE
       ELSE /\ pc_c' = "idle"
            /\ UNCHANGED <<flags, needs, phase, failed>>
    /\ ScnIdle
    /\ UNCHANGED <<main, pc_w, poller, remote, inflight, edited>>

\* ----------------------------------------------------------------- Next
Next ==
    \/ RemoteEdit
    \/ SubprocessExit
    \/ RunCrossCopyFirst
    \/ RunCrossCopySecond
    \/ RunGather
    \/ RunExit
    \/ WatchLocal
    \/ WatchRaise
    \/ WatchReturn
    \/ PollFetch
    \/ PollCompare
    \/ PollWake
    \/ SyncIdle
    \/ SyncBatch
    \/ SyncDedupeBefore
    \/ SyncResolve
    \/ SyncCrossCopySecond
    \/ SyncDedupeAfter
    \/ SyncLoop

Spec == Init /\ [][Next]_vars

\* -------------------------------------------------- the sort on its own
\* The poller alone, over a remote tree that may hold entries of equal Path
\* and different Size (what dedupe is there for): at most SortLen entries,
\* never modified, listed in any order at every poll cycle.
SortTrees == {t \in SUBSET Entry(SortPaths, SortSizes) : Cardinality(t) <= SortLen}

InitSort ==
    /\ main = "gather"
    /\ pc_w = "watch"
    /\ pc_p = "fetch"
    /\ pc_c = "idle"
    /\ local_changed = FALSE
    /\ remote_changed = FALSE
    /\ need_push = FALSE
    /\ need_pull = FALSE
    /\ last_state = None
    /\ stdout_content = NoOutput
    /\ remote \in SortTrees
    /\ inflight = 0
    /\ phase = <<>>
    /\ prev_poll = None
    /\ poll_same = FALSE
    /\ scn = "off"
    /\ acts = 0
    /\ edited = FALSE
    /\ failed = FALSE

NextSort ==
    \/ PollFetch
    \/ PollCompare
    \/ PollWake

SpecSort == InitSort /\ [][NextSort]_vars

\* ------------------------------------------------------------- fairness
\* The event loop runs every task that is ready, and the children end; no
\* assumption on when file events arrive or the remote is edited.
RunStep == RunCrossCopyFirst \/ RunCrossCopySecond \/ RunGather \/ RunExit

PollStep == PollFetch \/ PollCompare \/ PollWake

SyncStep ==
    \/ SyncIdle
    \/ SyncBatch
    \/ SyncDedupeBefore
    \/ SyncResolve
    \/ SyncCrossCopySecond
    \/ SyncDedupeAfter
    \/ SyncLoop

SpecLive ==
    /\ Init
    /\ [][Next]_vars
    /\ WF_vars(RunStep)
    /\ WF_vars(PollStep)
    /\ WF_vars(SyncStep)
    /\ WF_vars(SubprocessExit)

\* ------------------------------------------------------------- claims
DedupeCmd == [cmd |-> "dedupe", src |-> "remote", dst |-> "remote"]
CopyRL == [cmd |-> "copy", src |-> "remote", dst |-> "local"]
CopyLR == [cmd |-> "copy", src |-> "local", dst |-> "remote"]
SyncLR == [cmd |-> "sync", src |-> "local", dst |-> "remote"]
SyncRL == [cmd |-> "sync", src |-> "remote", dst |-> "local"]

IsCopy(t) == t.cmd = "copy"
IsSync(t) == t.cmd = "sync"
Copies(log) == SelectSeq(log, IsCopy)
Syncs(log) == SelectSeq(log, IsSync)
IsPrefix(p, s) == Len(p) <= Len(s) /\ p = SubSeq(s, 1, Len(p))

\* The direction has been resolved and its first transfer issued.
Resolved ==
    \/ pc_c \in {"cross_copy_1", "synced", "dedupe_2"}
    \/ pc_c = "idle" /\ phase # <<>>

\* The ACTION phase has issued its last transfer.
ActionDone ==
    \/ pc_c = "dedupe_2"
    \/ pc_c = "idle" /\ phase # <<>>

\* C1 (as claimed): at most one copy, sync or dedupe child of the daemon is
\* running at any moment.
OneInFlight == inflight <= 1

MirrorDirection ==
    /\ (need_push /\ ~need_pull /\ Resolved) =>
           (Syncs(phase) = <<SyncLR>> /\ Copies(phase) = <<>>)
    /\ (~need_push /\ need_pull /\ Resolved) =>
           (Syncs(phase) = <<SyncRL>> /\ Copies(phase) = <<>>)
    /\ (need_push # need_pull /\ pc_c \in {"cooldown", "dedupe_1"}) =>
           (Syncs(phase) = <<>> /\ Copies(phase) = <<>>)

MirrorPushDone ==
    /\ need_push /\ ~need_pull
    /\ pc_c = "dedupe_2"
    /\ phase = <<DedupeCmd, SyncLR, DedupeCmd>>

\* C4: every ACTION phase issues dedupe exactly twice, as its first and as
\* its last transfer, the copies or the sync of the resolved direction
\* between them.
DedupeBracketing ==
    /\ pc_c = "cooldown" => phase = <<>>
    /\ pc_c = "dedupe_1" => phase = <<DedupeCmd>>
    /\ pc_c \in {"cross_copy_1", "synced"} =>
           /\ Len(phase) >= 2
           /\ phase[1] = DedupeCmd
           /\ \A i \in 2..Len(phase) : IsCopy(phase[i]) \/ IsSync(phase[i])
    /\ ActionDone =>
           /\ Len(phase) >= 3
           /\ phase[1] = DedupeCmd
           /\ phase[Len(phase)] = DedupeCmd
           /\ \A i \in 2..(Len(phase) - 1) : IsCopy(phase[i]) \/ IsSync(phase[i])

DedupeBracketingDone ==
    /\ pc_c = "dedupe_2"
    /\ phase[1] = DedupeCmd
    /\ phase[Len(phase)] = DedupeCmd
    /\ Len(phase) \in {3, 4}

\* C5: a dirty flag goes from true to false only in a batching step of
\* _sync, that step clears both flags at once, and what it read true it has
\* OR-ed into need_push / need_pull; in every other step a set flag stays
\* set.
FlagAtomicity ==
    [][ ((local_changed /\ ~local_changed') \/ (remote_changed /\ ~remote_changed')) =>
            /\ pc_c \in {"idle", "cooldown", "dedupe_2"}
            /\ pc_c' = "cooldown"
            /\ ~local_changed' /\ ~remote_changed'
            /\ local_changed => need_push'
            /\ remote_changed => need_pull'
            /\ (pc_c = "cooldown" /\ need_push) => need_push'
            /\ (pc_c = "cooldown" /\ need_pull) => need_pull' ]_vars

FlagSetAfterClear ==
    /\ pc_c = "cooldown"
    /\ need_push /\ ~need_pull
    /\ ~local_changed /\ remote_changed

\* C6 (scenario 2): a local event, then a remote change signalled before
\* the cooldown of the local event has ended, then no signal: one ACTION
\* phase follows, and it is a cross-copy.
ScenarioTwo ==
    /\ scn \in {"LR", "LR+"} =>
           /\ acts <= 1
           /\ acts = 1 =>
                  /\ Syncs(phase) = <<>>
                  /\ IsPrefix(phase, <<DedupeCmd, CopyRL, CopyLR, DedupeCmd>>)
    /\ (scn = "LR" /\ Quiescent) =>
           /\ acts = 1
           /\ phase = <<DedupeCmd, CopyRL, CopyLR, DedupeCmd>>

ScenarioTwoDone ==
    /\ scn = "LR"
    /\ Quiescent
    /\ acts = 1
    /\ phase = <<DedupeCmd, CopyRL, CopyLR, DedupeCmd>>

\* C7 (scenario 1, as claimed): a local event while the remote tree is
\* unchanged and no further local event before the cooldown has ended: the
\* ACTION phase that follows issues one sync local->remote and no copy.
ScenarioOneRemoteUnchanged ==
    (scn # "off" /\ ~edited /\ acts = 1 /\ Resolved) =>
        (Syncs(phase) = <<SyncLR>> /\ Copies(phase) = <<>>)

\* C7 (scenario 1, amended): a local event while both flags are clear and
\* _sync is idle, and neither a further local event nor a change signal of
\* the poller before the cooldown has ended: the ACTION phase that follows
\* issues one sync local->remote and no copy.
ScenarioOne ==
    /\ (scn \in {"L", "L+"} /\ acts >= 1) =>
           /\ acts = 1
           /\ Copies(phase) = <<>>
           /\ IsPrefix(phase, <<DedupeCmd, SyncLR, DedupeCmd>>)
           /\ Resolved => Syncs(phase) = <<SyncLR>>
    /\ (scn = "L" /\ Quiescent) =>
           /\ acts = 1
           /\ phase = <<DedupeCmd, SyncLR, DedupeCmd>>

ScenarioOneDone ==
    /\ scn = "L"
    /\ Quiescent
    /\ acts = 1
    /\ phase = <<DedupeCmd, SyncLR, DedupeCmd>>

\* C8 (scenario 3): a poll cycle whose sorted listing equals that of the
\* preceding cycle leaves remote_changed and the baseline as they are; _sync,
\* if idle with both flags clear, stays so and no transfer is issued.
ScenarioThree ==
    [][ (/\ pc_p = "compare"
         /\ pc_p' = "sleep"
         /\ Some(SortByPath(stdout_content.list)) = prev_poll) =>
            /\ remote_changed' = remote_changed
            /\ last_state' = last_state
            /\ last_state = prev_poll
            /\ pc_c' = pc_c
            /\ inflight' = inflight
            /\ phase' = phase
            /\ Quiescent => Quiescent' ]_vars

ScenarioThreeDone ==
    /\ pc_p = "sleep"
    /\ poll_same
    /\ Quiescent
    /\ last_state # None

\* C9 (as claimed): whatever the order in which the remote lists the
\* entries, entries of equal path included, the sort gives the same
\* sequence, hence the same changed/unchanged decision against the baseline.
SortOrderIndependent ==
    (pc_p = "compare" /\ stdout_content.kind = "json") =>
        \A q \in Listings(remote) :
            /\ SortByPath(q) = SortByPath(stdout_content.list)
            /\ Changed(SortByPath(q), last_state)
                   = Changed(SortByPath(stdout_content.list), last_state)

\* C10 (as claimed): once one of the three tasks has returned or raised,
\* the coordinator stops waiting: the process has exited or its exit is the
\* coordinator's next step.
FailFast ==
    (main = "gather" /\ \E pc \in {pc_w, pc_p, pc_c} : pc \in {"returned", "raised"}) =>
        ENABLED RunExit

\* Until _sync has begun its first batching it has issued no transfer: the
\* children that run are the two copies of the startup.
StartupCopiesRunning == inflight > 0 /\ ~need_push /\ ~need_pull

\* C11 (as claimed): while a copy of the initial cross-copy is running no
\* local event has been observed and no remote listing fetched.
InitialCrossCopyFinishedFirst ==
    StartupCopiesRunning =>
        /\ ~local_changed
        /\ pc_w = "watch"
        /\ pc_p = "fetch"
        /\ last_state = None

\* C12: when _sync resolves the direction, need_push or need_pull is true;
\* the branch "assert False" is never taken.
NeverUnreachable ==
    /\ pc_c # "raised"
    /\ pc_c \in {"cooldown", "dedupe_1", "cross_copy_1", "synced", "dedupe_2"} =>
           (need_push \/ need_pull)

ResolvedWithNeed ==
    /\ pc_c = "synced"
    /\ need_push \/ need_pull
    /\ Len(phase) >= 2

\* C13: _sync goes from batching to ACTION only in a step that finds both
\* flags clear at the end of a cooldown; a flag found set at the end of a
\* cooldown leads to one more iteration and cooldown; both flags are clear
\* when ACTION begins.
Debounce ==
    [][ /\ (pc_c \in {"idle", "cooldown"} /\ pc_c' = "dedupe_1") =>
               /\ pc_c = "cooldown"
               /\ ~local_changed /\ ~remote_changed
               /\ ~local_changed' /\ ~remote_changed'
               /\ phase' = <<DedupeCmd>>
        /\ (pc_c = "cooldown" /\ (local_changed \/ remote_changed) /\ pc_c' # pc_c) =>
               pc_c' = "cancelled"
        /\ (pc_c \in {"idle", "dedupe_2"} /\ pc_c' \notin {pc_c, "cancelled"}) =>
               pc_c' \in {"idle", "cooldown"} ]_vars

ActionBegunAfterSilence ==
    /\ pc_c = "dedupe_1"
    /\ need_push /\ need_pull
    /\ ~local_changed /\ ~remote_changed

\* C14: the first poll cycle that fetches a listing sets remote_changed and
\* stores the listing as baseline, whatever the listing, the empty one
\* included; until then the baseline is None.
FirstPollSignals ==
    [][ (/\ pc_p = "compare"
         /\ pc_p' = "sleep"
         /\ prev_poll = None) =>
            /\ last_state = None
            /\ remote_changed'
            /\ last_state' = Some(SortByPath(stdout_content.list))
            /\ last_state' # None ]_vars

FirstPollOfEmptyRemote ==
    /\ ~edited
    /\ remote = {}
    /\ pc_p = "sleep"
    /\ last_state = Some(<<>>)
    /\ remote_changed

\* C15: local_changed rises only in a step of the watcher, which leaves
\* remote_changed alone; remote_changed rises only in the compare step of the
\* poller, which leaves local_changed alone; a flag falls only in a batching
\* step of _sync, never before the tasks run, in IDLE or in ACTION.
FlagFrame ==
    [][ /\ WatchLocal => (local_changed' /\ remote_changed' = remote_changed)
        /\ (~local_changed /\ local_changed') =>
               /\ pc_w = "watch" /\ main = "gather"
               /\ UNCHANGED <<remote_changed, pc_p, pc_c, need_push, need_pull>>
        /\ (~remote_changed /\ remote_changed') =>
               /\ pc_p = "compare" /\ pc_p' = "sleep" /\ main = "gather"
               /\ UNCHANGED <<local_changed, pc_w, pc_c, need_push, need_pull>>
        /\ ((local_changed /\ ~local_changed') \/ (remote_changed /\ ~remote_changed')) =>
               /\ main = "gather"
               /\ pc_c' = "cooldown"
               /\ pc_c = "idle" => (need_push' = local_changed /\ need_pull' = remote_changed)
        /\ (pc_c \in {"dedupe_1", "cross_copy_1", "synced"} \/ pc_c' = "idle") =>
               /\ local_changed => local_changed'
               /\ remote_changed => remote_changed' ]_vars

FlagSetDuringAction ==
    /\ pc_c = "dedupe_2"
    /\ local_changed /\ ~remote_changed
    /\ Len(phase) >= 3

\* C16: a poll cycle whose fetch yields an empty or unparsable output raises:
\* the cycle sets no flag and leaves the baseline alone, the poller takes no
\* further step, and the coordinator can only end the process, which leaves
\* no task running.
PollFailureFatal ==
    /\ [](pc_p = "raised" => (main = "exited" \/ ENABLED RunExit))
    /\ [](main = "exited" => {pc_w, pc_p, pc_c} \subseteq Ended)
    /\ [][ /\ (pc_p = "compare" /\ stdout_content.kind # "json" /\ pc_p' # pc_p) =>
                  /\ pc_p' \in {"raised", "cancelled"}
                  /\ UNCHANGED <<local_changed, remote_changed, last_state>>
           /\ pc_p = "raised" =>
                  /\ pc_p' = "raised"
                  /\ UNCHANGED <<last_state, stdout_content>>
                  /\ remote_changed' => remote_changed ]_vars

PollRaisedLater ==
    /\ pc_p = "raised"
    /\ last_state # None
    /\ main = "exited"
    /\ pc_c = "cancelled"

\* The paths the poller's stored baseline holds.
Baseline ==
    IF last_state = None THEN {}
    ELSE UNION {{s[i] : i \in 1..Len(s)} : s \in last_state}

\* C18 (as claimed): _sync issues a push-only sync local -> remote only
\* when every entry of the remote tree is in the poller's stored baseline.
NoRemoteLossOnPush ==
    [][ (/\ pc_c = "dedupe_1"
         /\ pc_c' = "synced"
         /\ need_push /\ ~need_pull
         /\ last_state # None) =>
            /\ phase' = <<DedupeCmd, SyncLR>>
            /\ remote \subseteq Baseline ]_vars

\* The transfers ACTION issues for the needs recorded, in order.
FullAction ==
    IF need_push /\ need_pull THEN <<DedupeCmd, CopyRL, CopyLR, DedupeCmd>>
    ELSE IF need_push THEN <<DedupeCmd, SyncLR, DedupeCmd>>
    ELSE <<DedupeCmd, SyncRL, DedupeCmd>>

\* C17: a child that exits with a failure changes nothing of _sync: not
\* where it stands, not the dirty flags, not need_push/need_pull, not what
\* it has issued; after a failure ACTION still issues the same transfers in
\* the same order and _sync goes back to the top of its loop, where only a
\* dirty flag set by the watcher or the poller starts a new batch.
OutcomeIgnored ==
    /\ [](failed /\ ActionDone => phase = FullAction)
    /\ [](failed /\ pc_c \in {"dedupe_1", "cross_copy_1", "synced", "dedupe_2"} =>
              (pc_c # "raised" /\ IsPrefix(phase, FullAction)))
    /\ [][ /\ (inflight' < inflight) =>
                  UNCHANGED <<main, pc_w, pc_p, pc_c, local_changed, remote_changed,
                              need_push, need_pull, phase, last_state>>
           /\ (failed /\ pc_c = "dedupe_2" /\ pc_c' \notin {pc_c, "cancelled"}) =>
                  pc_c' = IF local_changed \/ remote_changed THEN "cooldown" ELSE "idle"
           /\ (failed /\ pc_c = "idle" /\ ~local_changed /\ ~remote_changed) =>
                  pc_c' \in {"idle", "cancelled"} ]_vars

FailedActionDone ==
    /\ failed
    /\ pc_c = "idle"
    /\ phase = <<DedupeCmd, SyncLR, DedupeCmd>>
    /\ inflight = 0
    /\ ~local_changed /\ ~remote_changed

\* A dirty flag is set again and again while _sync is in a cooldown.
SignalsKeepArriving == []<>(pc_c = "cooldown" /\ (local_changed \/ remote_changed))

PushIssued ==
    /\ pc_c = "synced"
    /\ \E i \in 1..Len(phase) : phase[i] \in {SyncLR, CopyLR}

PullIssued ==
    /\ pc_c = "synced"
    /\ \E i \in 1..Len(phase) : phase[i] \in {SyncRL, CopyRL}

PushRecorded == pc_c = "cooldown" /\ need_push /\ phase = <<>>

PullRecorded == pc_c = "cooldown" /\ need_pull /\ phase = <<>>

\* A dirty flag rises.
Signal ==
    \/ ~local_changed /\ local_changed'
    \/ ~remote_changed /\ remote_changed'

====
